---- MODULE Spec2Model ----
(***************************************************************************)
(* Model of gitutils.go (DaGit): loading loose git objects, decoding tree  *)
(* and commit bodies, and building the node/edge graph of a repository.    *)
(*                                                                         *)
(* Bytes are integers 0..255, Go strings and byte slices are sequences of  *)
(* bytes.  Indices in the decoders are the 0-based indices of the Go code; *)
(* Slice(s, lo, hi) is the Go slice expression s[lo:hi].                   *)
(***************************************************************************)
EXTENDS Integers, Sequences, FiniteSets, TLC

VARIABLES
    pc,       \* where the run is: start, walking, idle, toJson, toSQLite, exited
    input,    \* the argument of the decoder under SpecDecode
    result,   \* what the decoder returned
    fs,       \* the optional entries present in the repository directory
    r,        \* the Repo: location and objects (name -> Object)
    walk,     \* getObjects: caller, objects_dir, entries left, objects so far
    fed,      \* the paths getObjects passed to newObject, per caller
    todo,     \* the objects the range over r.objects has not yielded yet
    nodes,    \* nodes of Repo.toJson
    edges,    \* edges of Repo.toJson
    db,       \* rows of the tables objects and edges of Repo.toSQLite
    out,      \* the node set and edge set of the last document toJson returned
    prevOut,  \* the same of the document returned before it
    exit,     \* running, or how the process ended (log.Fatal, panic)
    calls     \* number of calls made on the Repo so far

vars == <<pc, input, result, fs, r, walk, fed, todo, nodes, edges, db,
          out, prevOut, exit, calls>>

----------------------------------------------------------------------------
(* Program constants *)

SPACE == 32
NUL == 0
NEWLINE == 10
ModeStride == 6
HashLen == 20
TreeIdStart == 5
TreeIdStop == 45
RestStart == 46
LabelLen == 6
ParentIdStart == 7
ParentIdStop == 47

(* Bounds of the model *)

MaxHeaderLen == 4
MaxEntries == 2
MaxParents == 2
MaxFiles == 2
MaxCalls == 4

----------------------------------------------------------------------------
(* Byte strings used by the code and by the inputs *)

StrTree == <<116, 114, 101, 101>>
StrCommit == <<99, 111, 109, 109, 105, 116>>
StrBlob == <<98, 108, 111, 98>>
StrTag == <<116, 97, 103>>
StrParent == <<112, 97, 114, 101, 110, 116>>
StrAuthor == <<97, 117, 116, 104, 111, 114, 32, 65>>
StrMsg == <<109, 115, 103>>

Range(s) == {s[i] : i \in 1..Len(s)}

\* s[lo:hi] of Go, defined when 0 <= lo <= hi <= len(s)
SliceOK(s, lo, hi) == 0 <= lo /\ lo <= hi /\ hi <= Len(s)

Slice(s, lo, hi) == SubSeq(s, lo + 1, hi)

\* the white space of unicode.IsSpace that fits one byte of the inputs
IsSpaceByte(b) == b \in {9, 10, 11, 12, 13, 32}

RECURSIVE TrimLeft(_)
TrimLeft(s) ==
    IF s # <<>> /\ IsSpaceByte(Head(s)) THEN TrimLeft(Tail(s)) ELSE s

RECURSIVE TrimRight(_)
TrimRight(s) ==
    IF s # <<>> /\ IsSpaceByte(s[Len(s)])
    THEN TrimRight(SubSeq(s, 1, Len(s) - 1))
    ELSE s

TrimSpace(s) == TrimRight(TrimLeft(s))

HexDigit(d) == IF d < 10 THEN 48 + d ELSE 87 + d

\* hex.EncodeToString: two lowercase hex digits per byte
HexEncode(bs) ==
    [i \in 1..(2 * Len(bs)) |->
        IF i % 2 = 1 THEN HexDigit(bs[(i + 1) \div 2] \div 16)
        ELSE HexDigit(bs[i \div 2] % 16)]

\* strings.Split(s, "\n"): the pieces between consecutive newlines
SplitLines(s) ==
    LET nl == {i \in 1..Len(s) : s[i] = NEWLINE}
        Cut(k) == IF k = 0 THEN 0
                  ELSE IF k > Cardinality(nl) THEN Len(s) + 1
                  ELSE CHOOSE i \in nl : Cardinality({j \in nl : j < i}) = k - 1
    IN  [k \in 1..(Cardinality(nl) + 1) |-> SubSeq(s, Cut(k - 1) + 1, Cut(k) - 1)]

----------------------------------------------------------------------------
(* Header parser *)

\* index of the first byte equal to match_byte at or after start_index, or -1
findFirstMatch(match_byte, start_index, data) ==
    LET hits == {i \in start_index..(Len(data) - 1) : data[i + 1] = match_byte}
    IN  IF hits = {} THEN -1
        ELSE CHOOSE i \in hits : \A j \in hits : i <= j

\* a Go run-time panic (index or slice bounds out of range)
Panic == [status |-> "panic"]

getType(data) ==
    LET first_space_index == findFirstMatch(SPACE, 0, data)
    IN  IF ~SliceOK(data, 0, first_space_index) THEN Panic
        ELSE [status |-> "ok",
              type_ |-> TrimSpace(Slice(data, 0, first_space_index)),
              first_space_index |-> first_space_index]

getSize(first_space_index, data) ==
    LET first_nul_index == findFirstMatch(NUL, first_space_index + 1, data)
    IN  IF ~SliceOK(data, first_space_index, first_nul_index) THEN Panic
        ELSE [status |-> "ok",
              size |-> TrimSpace(Slice(data, first_space_index, first_nul_index)),
              content_start_index |-> first_nul_index + 1]

NoObject == [Type_ |-> <<>>, Size |-> <<>>, Location |-> <<>>, Name |-> <<>>,
             Content |-> <<>>, made |-> FALSE]

\* newObject after decompression: header parsing and construction
objectFromBytes(location, name, bytes) ==
    LET t == getType(bytes)
    IN  IF t.status # "ok" THEN [status |-> "panic", obj |-> NoObject]
        ELSE LET s == getSize(t.first_space_index, bytes)
             IN  IF s.status # "ok" THEN [status |-> "panic", obj |-> NoObject]
                 ELSE IF ~SliceOK(bytes, s.content_start_index, Len(bytes))
                 THEN [status |-> "panic", obj |-> NoObject]
                 ELSE [status |-> "ok",
                       obj |-> [Type_ |-> t.type_, Size |-> s.size,
                                Location |-> location, Name |-> name,
                                Content |-> Slice(bytes, s.content_start_index,
                                                  Len(bytes)),
                                made |-> TRUE]]

----------------------------------------------------------------------------
(* Tree decoder *)

\* the inner loop of case 2: stops at a zero byte or at the last index
scanName(content, start) ==
    LET stops == {i \in start..(Len(content) - 1) :
                    content[i + 1] = NUL \/ ~(i < Len(content) - 1)}
    IN  CHOOSE i \in stops : \A j \in stops : i <= j

appendEntry(entries, mode, name, hash) ==
    Append(entries, [Mode |-> mode, Name |-> name, Hash |-> hash])

RECURSIVE parseTreeLoop(_, _, _, _, _, _, _)
parseTreeLoop(content, entry_item, start, stop, mode, name, entries) ==
    IF ~(stop <= Len(content)) THEN [status |-> "ok", entries |-> entries]
    ELSE IF entry_item = 1 THEN
        parseTreeLoop(content, 2, stop, stop,
                      TrimSpace(Slice(content, start, stop)), name, entries)
    ELSE IF entry_item = 2 THEN
        IF start >= Len(content) THEN [status |-> "panic", entries |-> entries]
        ELSE LET i == scanName(content, start)
             IN  parseTreeLoop(content, 3, i + 1, i + 1 + HashLen, mode,
                               TrimSpace(Slice(content, start, i)), entries)
    ELSE
        parseTreeLoop(content, 1, stop, stop + ModeStride, mode, name,
                      appendEntry(entries, mode, name,
                                  TrimSpace(HexEncode(Slice(content, start, stop)))))

parseTree(content) ==
    parseTreeLoop(content, 1, 0, ModeStride, <<>>, <<>>, <<>>)

----------------------------------------------------------------------------
(* Commit decoder *)

NoCommit == [Tree |-> <<>>, Parents |-> <<>>]

RECURSIVE parentLoop(_, _, _)
parentLoop(lines, k, parents) ==
    IF k > Len(lines) THEN [status |-> "ok", parents |-> parents]
    ELSE LET line == lines[k]
         IN  IF ~SliceOK(line, 0, LabelLen)
             THEN [status |-> "panic", parents |-> parents]
             ELSE IF Slice(line, 0, LabelLen) = StrParent
             THEN IF ~SliceOK(line, ParentIdStart, ParentIdStop)
                  THEN [status |-> "panic", parents |-> parents]
                  ELSE parentLoop(lines, k + 1,
                                  Append(parents,
                                         Slice(line, ParentIdStart, ParentIdStop)))
             ELSE [status |-> "ok", parents |-> parents]

parseCommit(content) ==
    IF ~SliceOK(content, TreeIdStart, TreeIdStop)
    THEN [status |-> "panic", commit |-> NoCommit]
    ELSE IF ~SliceOK(content, RestStart, Len(content))
    THEN [status |-> "panic", commit |-> NoCommit]
    ELSE LET tree_hash == Slice(content, TreeIdStart, TreeIdStop)
             rest_of_content == SplitLines(Slice(content, RestStart, Len(content)))
             p == parentLoop(rest_of_content, 1, <<>>)
         IN  IF p.status # "ok" THEN [status |-> "panic", commit |-> NoCommit]
             ELSE [status |-> "ok",
                   commit |-> [Tree |-> tree_hash, Parents |-> p.parents]]

----------------------------------------------------------------------------
(* Object loader *)

\* zlib.NewReader / io.ReadAll over the file's bytes: the decompression
\* collaborator either fails or yields the decompressed bytes
inflate(file) ==
    IF file.zlib_ok THEN [err |-> FALSE, bytes |-> file.bytes]
    ELSE [err |-> TRUE, bytes |-> <<>>]

\* a path is the sequence of its segments
Base(path) == path[Len(path)]
Dir(path) == SubSeq(path, 1, Len(path) - 1)

getObjectName(object_path) == Base(Dir(object_path)) \o Base(object_path)

\* status "fatal" is log.Fatal (the process exits), "panic" a run-time panic
newObject(object_path, file) ==
    IF ~file.readable THEN [status |-> "fatal", obj |-> NoObject]
    ELSE LET z == inflate(file)
         IN  IF z.err THEN [status |-> "fatal", obj |-> NoObject]
             ELSE objectFromBytes(object_path, getObjectName(object_path), z.bytes)

----------------------------------------------------------------------------
(* Inputs of the decoders *)

RECURSIVE Concat(_)
Concat(ss) == IF ss = <<>> THEN <<>> ELSE Head(ss) \o Concat(Tail(ss))

Prefixes(s) == {SubSeq(s, 1, n) : n \in 0..Len(s)}

SeqsUpTo(S, n) == UNION {[1..k -> S] : k \in 0..n}

\* a 40-character identifier and the 20 raw bytes it is the hex form of
Id(c) == [i \in 1..40 |-> c]
Raw(b) == [i \in 1..HashLen |-> b]
RawMixed == [i \in 1..HashLen |-> (i * 13) % 256]

HeaderBytes == {98, SPACE, NUL, 49}
HeaderInputs(n) == SeqsUpTo(HeaderBytes, n)

TreeModes == {<<54, 52, 52>>, <<52, 48, 48, 48, 48>>,
              <<49, 48, 48, 54, 52, 52>>, <<49, 48, 48, 54, 52, 52, 48>>}
TreeNames == {<<97>>, <<98, 46, 99>>}
TreeHashes == {Raw(170), RawMixed}
TreeEntryInputs == [Mode : TreeModes, Name : TreeNames, Raw : TreeHashes]

EncodeEntry(e) == e.Mode \o <<SPACE>> \o e.Name \o <<NUL>> \o e.Raw
EncodeTree(es) == Concat([i \in 1..Len(es) |-> EncodeEntry(es[i])])

\* the bodies of up to n entries, and every truncation of one
TreeInputs(n) ==
    UNION {Prefixes(EncodeTree(es)) : es \in SeqsUpTo(TreeEntryInputs, n)}

CommitLabels == {StrTree, <<116, 114, 101, 100>>}
CommitTails == {<<>>, <<NEWLINE>>,
                <<NEWLINE>> \o StrAuthor \o <<NEWLINE, NEWLINE>> \o StrMsg \o <<NEWLINE>>,
                <<NEWLINE>> \o StrMsg}

EncodeCommit(label, tree, parents, tail) ==
    label \o <<SPACE>> \o tree
    \o Concat([i \in 1..Len(parents) |-> <<NEWLINE>> \o StrParent \o <<SPACE>> \o parents[i]])
    \o tail

\* the bodies of up to n parents, and every truncation of one
CommitInputs(n) ==
    UNION {Prefixes(EncodeCommit(l, Id(97), ps, t)) :
             l \in CommitLabels, ps \in SeqsUpTo({Id(98), Id(99)}, n),
             t \in CommitTails}

DecodePath == <<<<97, 97>>, <<98, 98>>>>

DecodeInput(kind, bytes) ==
    [kind |-> kind, bytes |-> bytes, zlib_ok |-> TRUE, readable |-> TRUE]

DecodeInputs(maxHeader, maxEntries, maxParents) ==
    {DecodeInput("header", b) : b \in HeaderInputs(maxHeader)}
    \cup {[kind |-> "header", bytes |-> <<>>, zlib_ok |-> FALSE, readable |-> TRUE],
          [kind |-> "header", bytes |-> <<>>, zlib_ok |-> FALSE, readable |-> FALSE]}
    \cup {DecodeInput("tree", b) : b \in TreeInputs(maxEntries)}
    \cup {DecodeInput("commit", b) : b \in CommitInputs(maxParents)}

----------------------------------------------------------------------------
(* State of the repository run; idle in the specification of the decoders *)

NoInput == [kind |-> "none", bytes |-> <<>>, zlib_ok |-> TRUE, readable |-> TRUE]
NoResult == [status |-> "none"]
NoRepo == [location |-> <<>>, objects |-> <<>>]
NoWalk == [op |-> "none", root |-> <<>>, queue |-> <<>>, objects |-> <<>>, n |-> 0]
NoOut == [made |-> FALSE, root |-> <<>>, load |-> 0, nodes |-> {}, edges |-> {}]
NoDb == [objects |-> <<>>, edges |-> <<>>]
Running == [status |-> "running", op |-> "none", subject |-> <<>>]

RepoIdle ==
    /\ fs = {}
    /\ r = NoRepo
    /\ walk = NoWalk
    /\ fed = [newRepo |-> {}, refresh |-> {}]
    /\ todo = {}
    /\ nodes = <<>>
    /\ edges = <<>>
    /\ db = NoDb
    /\ out = NoOut
    /\ prevOut = NoOut
    /\ exit = Running
    /\ calls = 0

repoVars == <<fs, r, walk, fed, todo, nodes, edges, db, out, prevOut, exit, calls>>

----------------------------------------------------------------------------
(* Specification of the decoders: one input, the decoder applied to it *)

InitDecode ==
    /\ pc = "input"
    /\ input \in DecodeInputs(MaxHeaderLen, MaxEntries, MaxParents)
    /\ result = NoResult
    /\ RepoIdle

ApplyNewObject ==
    /\ pc = "input"
    /\ input.kind = "header"
    /\ result' = newObject(DecodePath, input)
    /\ pc' = "decoded"
    /\ UNCHANGED <<input, repoVars>>

ApplyParseTree ==
    /\ pc = "input"
    /\ input.kind = "tree"
    /\ result' = parseTree(input.bytes)
    /\ pc' = "decoded"
    /\ UNCHANGED <<input, repoVars>>

ApplyParseCommit ==
    /\ pc = "input"
    /\ input.kind = "commit"
    /\ result' = parseCommit(input.bytes)
    /\ pc' = "decoded"
    /\ UNCHANGED <<input, repoVars>>

NextDecode == ApplyNewObject \/ ApplyParseTree \/ ApplyParseCommit

SpecDecode == InitDecode /\ [][NextDecode]_vars

----------------------------------------------------------------------------
(* The store on disk: the entries of the repository directory in the      *)
(* lexical order in which filepath.WalkDir visits them.  The variable fs   *)
(* holds the optional entries that are present; StoreOf(fs) is the disk.   *)

StrRepo == <<114, 101, 112, 111>>
StrGit == <<46, 103, 105, 116>>
StrObjects == <<111, 98, 106, 101, 99, 116, 115>>
StrHead == <<72, 69, 65, 68>>
StrPack == <<112, 97, 99, 107>>
StrRefs == <<114, 101, 102, 115>>
StrHeads == <<104, 101, 97, 100, 115>>
StrFeed == <<102, 101, 101, 100>>
StrCafe == <<99, 97, 102, 101>>
StrMode644 == <<49, 48, 48, 54, 52, 52>>
StrMode40000 == <<52, 48, 48, 48, 48>>

Location == <<StrRepo>>
OBJS_DIR == <<StrGit, StrObjects>>
HEAD_LOC == <<StrGit, StrHead>>

RECURSIVE Decimal(_)
Decimal(n) == IF n < 10 THEN <<48 + n>> ELSE Decimal(n \div 10) \o <<48 + (n % 10)>>

\* the decompressed form of a loose object: type, space, size, zero, body
Loose(type, content) ==
    [readable |-> TRUE, zlib_ok |-> TRUE,
     bytes |-> type \o <<SPACE>> \o Decimal(Len(content)) \o <<NUL>> \o content]
Plain(bytes) == [readable |-> TRUE, zlib_ok |-> TRUE, bytes |-> bytes]
NotZlib == [readable |-> TRUE, zlib_ok |-> FALSE, bytes |-> <<>>]
NoFile == [readable |-> FALSE, zlib_ok |-> FALSE, bytes |-> <<>>]

DirEntry(path, err, opt) ==
    [path |-> path, isDir |-> TRUE, err |-> err, file |-> NoFile, opt |-> opt]
FileEntry(path, file, opt) ==
    [path |-> path, isDir |-> FALSE, err |-> FALSE, file |-> file, opt |-> opt]

\* the fan-out directory and the file of the object whose hash is 20 bytes b
ObjDirPath(b) == Location \o OBJS_DIR \o <<SubSeq(HexEncode(Raw(b)), 1, 2)>>
ObjFilePath(b) == ObjDirPath(b) \o <<SubSeq(HexEncode(Raw(b)), 3, 40)>>
LooseObject(b, file, opt) ==
    <<DirEntry(ObjDirPath(b), FALSE, opt), FileEntry(ObjFilePath(b), file, opt)>>

AuthorTail == <<NEWLINE>> \o StrAuthor \o <<NEWLINE, NEWLINE>> \o StrMsg \o <<NEWLINE>>

TreeBody ==
    EncodeTree(<<[Mode |-> StrMode644, Name |-> <<97>>, Raw |-> Raw(187)],
                 [Mode |-> StrMode40000, Name |-> <<98, 46, 99>>, Raw |-> Raw(60)]>>)
ShortModeTreeBody ==
    EncodeTree(<<[Mode |-> <<54, 52, 52>>, Name |-> <<97>>, Raw |-> Raw(187)]>>)
RootCommitBody == EncodeCommit(StrTree, HexEncode(Raw(170)), <<>>, AuthorTail)
MergeCommitBody ==
    EncodeCommit(StrTree, HexEncode(Raw(170)),
                 <<HexEncode(Raw(204)), HexEncode(Raw(153))>>, AuthorTail)
BareCommitBody == EncodeCommit(StrTree, HexEncode(Raw(170)), <<>>, <<NEWLINE>>)

Catalogue ==
    <<DirEntry(Location, FALSE, 0),
      DirEntry(Location \o <<StrGit>>, FALSE, 0),
      FileEntry(Location \o HEAD_LOC, Plain(StrMsg), 0),
      DirEntry(Location \o OBJS_DIR, FALSE, 0)>>
    \o LooseObject(0, Plain(StrBlob), 1)
    \o <<DirEntry(ObjDirPath(14), TRUE, 2)>>
    \o LooseObject(60, Loose(StrTree, <<>>), 3)
    \o LooseObject(119, Loose(StrTree, ShortModeTreeBody), 4)
    \o LooseObject(170, Loose(StrTree, TreeBody), 5)
    \o LooseObject(187, Loose(StrBlob, StrMsg), 6)
    \o LooseObject(204, Loose(StrCommit, RootCommitBody), 7)
    \o LooseObject(208, Loose(StrCommit, BareCommitBody), 8)
    \o LooseObject(221, Loose(StrCommit, MergeCommitBody), 9)
    \o LooseObject(238, Loose(StrTag, StrMsg), 10)
    \o LooseObject(255, NotZlib, 11)
    \o <<DirEntry(Location \o OBJS_DIR \o <<StrPack>>, FALSE, 0),
         DirEntry(Location \o <<StrGit, StrRefs>>, FALSE, 0),
         DirEntry(Location \o <<StrGit, StrRefs, StrHeads>>, FALSE, 0),
         FileEntry(Location \o <<StrGit, StrRefs, StrHeads, StrFeed>>, NotZlib, 12),
         FileEntry(Location \o <<StrCafe>>, Loose(StrBlob, StrMsg), 13)>>

Options == {Catalogue[i].opt : i \in 1..Len(Catalogue)} \ {0}

Stores == {c \in SUBSET Options : Cardinality(c) <= MaxFiles}

StoreOf(chosen) ==
    LET Present(e) == e.opt = 0 \/ e.opt \in chosen
    IN  SelectSeq(Catalogue, Present)

----------------------------------------------------------------------------
(* Repository: loading *)

InRoot(path, root) ==
    Len(path) >= Len(root) /\ SubSeq(path, 1, Len(root)) = root

\* regexp ^[a-fA-F0-9]+$
isHex(name) ==
    /\ name # <<>>
    /\ \A i \in 1..Len(name) : name[i] \in (48..57) \cup (65..70) \cup (97..102)

\* the entries WalkDir hands to the callback, by index into the disk
walkQueue(disk, root) ==
    LET Under(i) == InRoot(disk[i].path, root)
    IN  SelectSeq([i \in 1..Len(disk) |-> i], Under)

\* objects[obj.Name] = obj
putObject(objects, obj) == (obj.Name :> obj) @@ objects

\* one call of the WalkDir callback of getObjects
walkCallback(e, objects) ==
    IF e.err THEN [status |-> "stop", objects |-> objects, fed |-> {}]
    ELSE IF ~e.isDir /\ isHex(Base(e.path))
    THEN LET o == newObject(e.path, e.file)
         IN  IF o.status = "ok"
             THEN [status |-> "ok", objects |-> putObject(objects, o.obj),
                   fed |-> {e.path}]
             ELSE [status |-> o.status, objects |-> objects, fed |-> {e.path}]
    ELSE [status |-> "ok", objects |-> objects, fed |-> {}]

----------------------------------------------------------------------------
(* Repository: the graph build *)

\* the JSON document Object.toJson returns; empty is the zero-length output
EmptyDoc == [empty |-> TRUE, kind |-> "none", entries |-> <<>>,
             commit |-> NoCommit, blob |-> NoObject]

objectToJson(obj) ==
    IF obj.Type_ = StrTree
    THEN LET t == parseTree(obj.Content)
         IN  IF t.status # "ok" THEN [status |-> t.status, doc |-> EmptyDoc]
             ELSE [status |-> "ok",
                   doc |-> [EmptyDoc EXCEPT !.empty = FALSE, !.kind = "tree",
                                            !.entries = t.entries]]
    ELSE IF obj.Type_ = StrCommit
    THEN LET c == parseCommit(obj.Content)
         IN  IF c.status # "ok" THEN [status |-> c.status, doc |-> EmptyDoc]
             ELSE [status |-> "ok",
                   doc |-> [EmptyDoc EXCEPT !.empty = FALSE, !.kind = "commit",
                                            !.commit = c.commit]]
    ELSE IF obj.Type_ = StrBlob
    THEN [status |-> "ok",
          doc |-> [EmptyDoc EXCEPT !.empty = FALSE, !.kind = "blob", !.blob = obj]]
    ELSE [status |-> "ok", doc |-> EmptyDoc]

\* json.Unmarshal into a map: an empty input is a syntax error
unmarshal(doc) == [err |-> doc.empty, objMap |-> doc]

Edge(src, dest) == [Src |-> src, Dest |-> dest]

\* a variant that skips an edge whose destination already has an edge
appendEdgesOnce(list, new) ==
    LET Fresh(e) == \A i \in 1..Len(list) : list[i].Dest # e.Dest
    IN  list \o SelectSeq(new, Fresh)

appendEdges(list, new) == list \o new

\* a variant that emits the tree edge before the parent edges
treeFirstEdges(name, commit) ==
    <<Edge(name, commit.Tree)>>
    \o [i \in 1..Len(commit.Parents) |-> Edge(name, commit.Parents[i])]

commitEdges(name, commit) ==
    [i \in 1..Len(commit.Parents) |-> Edge(name, commit.Parents[i])]
    \o <<Edge(name, commit.Tree)>>

treeEdges(name, entries) ==
    [i \in 1..Len(entries) |-> Edge(name, entries[i].Hash)]

\* the switch on obj.Type_ that appends the edges of one object
objectEdges(obj, list) ==
    IF obj.Type_ = StrCommit
    THEN LET c == parseCommit(obj.Content)
         IN  IF c.status # "ok" THEN [status |-> c.status, edges |-> list]
             ELSE [status |-> "ok",
                   edges |-> appendEdges(list, commitEdges(obj.Name, c.commit))]
    ELSE IF obj.Type_ = StrTree
    THEN LET t == parseTree(obj.Content)
         IN  IF t.status # "ok" THEN [status |-> t.status, edges |-> list]
             ELSE [status |-> "ok",
                   edges |-> appendEdges(list, treeEdges(obj.Name, t.entries))]
    ELSE [status |-> "ok", edges |-> list]

\* one iteration of the loop of Repo.toJson
toJsonIteration(obj, nodeList, edgeList) ==
    LET j == objectToJson(obj)
    IN  IF j.status # "ok"
        THEN [status |-> j.status, nodes |-> nodeList, edges |-> edgeList]
        ELSE IF unmarshal(j.doc).err
        THEN [status |-> "fatal", nodes |-> nodeList, edges |-> edgeList]
        ELSE LET n == [name |-> obj.Name, type |-> obj.Type_,
                       object |-> unmarshal(j.doc).objMap]
                 e == objectEdges(obj, edgeList)
             IN  [status |-> e.status, nodes |-> Append(nodeList, n),
                  edges |-> e.edges]

\* one iteration of the loop of Repo.toSQLite
toSQLiteIteration(name, obj, base) ==
    LET j == objectToJson(obj)
    IN  IF j.status # "ok" THEN [status |-> j.status, db |-> base]
        ELSE LET row == [name |-> name, type |-> obj.Type_, object |-> j.doc]
                 e == objectEdges(obj, base.edges)
             IN  [status |-> e.status,
                  db |-> [objects |-> Append(base.objects, row), edges |-> e.edges]]

----------------------------------------------------------------------------
(* Specification of a run over one repository *)

Init ==
    /\ pc = "start"
    /\ input = NoInput
    /\ result = NoResult
    /\ fs \in Stores
    /\ r = NoRepo
    /\ walk = NoWalk
    /\ fed = [newRepo |-> {}, refresh |-> {}]
    /\ todo = {}
    /\ nodes = <<>>
    /\ edges = <<>>
    /\ db = NoDb
    /\ out = NoOut
    /\ prevOut = NoOut
    /\ exit = Running
    /\ calls = 0

startWalk(op, root) ==
    /\ walk' = [op |-> op, root |-> root, queue |-> walkQueue(StoreOf(fs), root),
                objects |-> <<>>, n |-> walk.n + 1]
    /\ fed' = [fed EXCEPT ![op] = {}]
    /\ pc' = "walking"
    /\ calls' = calls + 1

\* newRepo(location): getObjects(location + OBJS_DIR)
CallNewRepo ==
    /\ pc \in {"start", "idle"}
    /\ calls < MaxCalls
    /\ startWalk("newRepo", Location \o OBJS_DIR)
    /\ UNCHANGED <<input, result, fs, r, todo, nodes, edges, db, out, prevOut, exit>>

\* r.refresh(): getObjects(r.location)
CallRefresh ==
    /\ pc = "idle"
    /\ calls < MaxCalls
    /\ startWalk("refresh", r.location)
    /\ UNCHANGED <<input, result, fs, r, todo, nodes, edges, db, out, prevOut, exit>>

\* WalkDir calls the callback on the next entry
WalkStep ==
    /\ pc = "walking"
    /\ walk.queue # <<>>
    /\ LET e == StoreOf(fs)[Head(walk.queue)]
           c == walkCallback(e, walk.objects)
       IN  /\ fed' = [fed EXCEPT ![walk.op] = @ \cup c.fed]
           /\ IF c.status = "ok"
              THEN /\ walk' = [walk EXCEPT !.queue = Tail(@), !.objects = c.objects]
                   /\ UNCHANGED <<pc, exit>>
              ELSE IF c.status = "stop"
              THEN /\ walk' = [walk EXCEPT !.queue = <<>>]
                   /\ UNCHANGED <<pc, exit>>
              ELSE /\ pc' = "exited"
                   /\ exit' = [status |-> c.status, op |-> walk.op, subject |-> e.path]
                   /\ UNCHANGED walk
    /\ UNCHANGED <<input, result, fs, r, todo, nodes, edges, db, out, prevOut, calls>>

\* getObjects returns: newRepo builds the Repo, refresh assigns r.objects
ReturnObjects ==
    /\ pc = "walking"
    /\ walk.queue = <<>>
    /\ r' = IF walk.op = "newRepo"
            THEN [location |-> Location, objects |-> walk.objects]
            ELSE [r EXCEPT !.objects = walk.objects]
    /\ walk' = [walk EXCEPT !.objects = <<>>]
    /\ pc' = "idle"
    /\ UNCHANGED <<input, result, fs, fed, todo, nodes, edges, db, out, prevOut,
                   exit, calls>>

CallToJson ==
    /\ pc = "idle"
    /\ calls < MaxCalls
    /\ pc' = "toJson"
    /\ todo' = DOMAIN r.objects
    /\ nodes' = <<>>
    /\ edges' = <<>>
    /\ calls' = calls + 1
    /\ UNCHANGED <<input, result, fs, r, walk, fed, db, out, prevOut, exit>>

\* the range over r.objects yields the objects in any order
ToJsonStep ==
    /\ pc = "toJson"
    /\ \E name \in todo :
         LET it == toJsonIteration(r.objects[name], nodes, edges)
         IN  IF it.status = "ok"
             THEN /\ nodes' = it.nodes
                  /\ edges' = it.edges
                  /\ todo' = todo \ {name}
                  /\ UNCHANGED <<pc, exit>>
             ELSE /\ pc' = "exited"
                  /\ exit' = [status |-> it.status, op |-> "toJson", subject |-> name]
                  /\ UNCHANGED <<nodes, edges, todo>>
    /\ UNCHANGED <<input, result, fs, r, walk, fed, db, out, prevOut, calls>>

ReturnJson ==
    /\ pc = "toJson"
    /\ todo = {}
    /\ prevOut' = out
    /\ out' = [made |-> TRUE, root |-> walk.root, load |-> walk.n,
               nodes |-> Range(nodes), edges |-> Range(edges)]
    /\ nodes' = <<>>
    /\ edges' = <<>>
    /\ pc' = "idle"
    /\ UNCHANGED <<input, result, fs, r, walk, fed, todo, db, exit, calls>>

\* os.Remove(path) and the two create table statements give an empty database
CallToSQLite ==
    /\ pc = "idle"
    /\ calls < MaxCalls
    /\ pc' = "toSQLite"
    /\ todo' = DOMAIN r.objects
    /\ db' = NoDb
    /\ calls' = calls + 1
    /\ UNCHANGED <<input, result, fs, r, walk, fed, nodes, edges, out, prevOut, exit>>

ToSQLiteStep ==
    /\ pc = "toSQLite"
    /\ \E name \in todo :
         LET it == toSQLiteIteration(name, r.objects[name], db)
         IN  IF it.status = "ok"
             THEN /\ db' = it.db
                  /\ todo' = todo \ {name}
                  /\ UNCHANGED <<pc, exit>>
             ELSE /\ pc' = "exited"
                  /\ exit' = [status |-> it.status, op |-> "toSQLite", subject |-> name]
                  /\ UNCHANGED <<db, todo>>
    /\ UNCHANGED <<input, result, fs, r, walk, fed, nodes, edges, out, prevOut, calls>>

\* the deferred db.Close(): the rows stay in the file, outside the run
ReturnSQLite ==
    /\ pc = "toSQLite"
    /\ todo = {}
    /\ db' = NoDb
    /\ pc' = "idle"
    /\ UNCHANGED <<input, result, fs, r, walk, fed, todo, nodes, edges, out,
                   prevOut, exit, calls>>

Next ==
    \/ CallNewRepo
    \/ CallRefresh
    \/ WalkStep
    \/ ReturnObjects
    \/ CallToJson
    \/ ToJsonStep
    \/ ReturnJson
    \/ CallToSQLite
    \/ ToSQLiteStep
    \/ ReturnSQLite

Spec == Init /\ [][Next]_vars

----------------------------------------------------------------------------
(* The formats as the claims state them, used to say what a decoder owes *)

FirstIndex(s, b, from) ==
    LET hits == {i \in from..Len(s) : s[i] = b}
    IN  IF hits = {} THEN 0 ELSE CHOOSE i \in hits : \A j \in hits : i <= j

\* a tree body read entry by entry: mode up to the first space, name up to
\* the first zero byte, then HashLen raw bytes
RECURSIVE TreeGrammar(_)
TreeGrammar(body) ==
    IF body = <<>> THEN [valid |-> TRUE, entries |-> <<>>]
    ELSE LET sp == FirstIndex(body, SPACE, 1)
             nul == IF sp = 0 THEN 0 ELSE FirstIndex(body, NUL, sp + 1)
         IN  IF sp = 0 \/ nul = 0 \/ Len(body) < nul + HashLen
             THEN [valid |-> FALSE, entries |-> <<>>]
             ELSE LET rest == TreeGrammar(SubSeq(body, nul + HashLen + 1, Len(body)))
                      e == [Mode |-> SubSeq(body, 1, sp - 1),
                            Name |-> SubSeq(body, sp + 1, nul - 1),
                            Raw |-> SubSeq(body, nul + 1, nul + HashLen)]
                  IN  [valid |-> rest.valid, entries |-> <<e>> \o rest.entries]

HexVal(c) == IF c >= 97 THEN c - 87 ELSE c - 48

HexDecode(h) ==
    [i \in 1..(Len(h) \div 2) |-> 16 * HexVal(h[2 * i - 1]) + HexVal(h[2 * i])]

ReEncode(entries) ==
    Concat([i \in 1..Len(entries) |->
              entries[i].Mode \o <<SPACE>> \o entries[i].Name \o <<NUL>>
              \o HexDecode(entries[i].Hash)])

IsHexId(s) ==
    /\ Len(s) = 40
    /\ \A i \in 1..40 : s[i] \in (48..57) \cup (97..102)

IsTreeLine(l) ==
    /\ Len(l) = 45
    /\ SubSeq(l, 1, 5) = StrTree \o <<SPACE>>
    /\ IsHexId(SubSeq(l, 6, 45))

IsParentLine(l) ==
    /\ Len(l) = 47
    /\ SubSeq(l, 1, 7) = StrParent \o <<SPACE>>
    /\ IsHexId(SubSeq(l, 8, 47))

RECURSIVE ParentRun(_, _)
ParentRun(lines, k) ==
    IF k > Len(lines) \/ ~IsParentLine(lines[k]) THEN <<>>
    ELSE <<SubSeq(lines[k], 8, 47)>> \o ParentRun(lines, k + 1)

\* a commit body read line by line
CommitGrammar(body) ==
    LET lines == SplitLines(body)
        run == ParentRun(lines, 2)
        after == Len(run) + 2
    IN  [valid |-> /\ IsTreeLine(lines[1])
                   /\ \/ after > Len(lines)
                      \/ Len(lines[after]) < LabelLen
                      \/ SubSeq(lines[after], 1, LabelLen) # StrParent,
         tree |-> IF Len(lines[1]) >= 45 THEN SubSeq(lines[1], 6, 45) ELSE <<>>,
         parents |-> run]

MissingDelimiters(bytes) ==
    LET sp == FirstIndex(bytes, SPACE, 1)
    IN  sp = 0 \/ FirstIndex(bytes, NUL, sp + 1) = 0

----------------------------------------------------------------------------
(* Claims about the decoders, under SpecDecode *)

\* C1: every well-formed tree body decodes to exactly its entries, in order,
\* and re-encoding the decoded entries reproduces the body byte for byte.
C1_TreeRoundTrip ==
    (pc = "decoded" /\ input.kind = "tree" /\ TreeGrammar(input.bytes).valid) =>
        LET g == TreeGrammar(input.bytes).entries
        IN  /\ result.status = "ok"
            /\ Len(result.entries) = Len(g)
            /\ \A i \in 1..Len(g) :
                  /\ result.entries[i].Mode = g[i].Mode
                  /\ result.entries[i].Name = g[i].Name
                  /\ result.entries[i].Hash = HexEncode(g[i].Raw)
            /\ ReEncode(result.entries) = input.bytes

\* C2: every valid commit body decodes to the tree identifier of line 1 and
\* to exactly its N parents in declaration order.
C2_CommitDecoded ==
    (pc = "decoded" /\ input.kind = "commit" /\ CommitGrammar(input.bytes).valid) =>
        /\ result.status = "ok"
        /\ result.commit.Tree = CommitGrammar(input.bytes).tree
        /\ result.commit.Parents = CommitGrammar(input.bytes).parents

\* C3: a tree body that ends in the middle of an entry is reported as
\* TruncatedTree: no panic, no normal return that drops the entry.
C3_TruncatedTreeReported ==
    (pc = "decoded" /\ input.kind = "tree" /\ ~TreeGrammar(input.bytes).valid) =>
        result.status = "TruncatedTree"

\* C4: decompressed bytes without a space, or without a zero byte after the
\* first space, fail with MalformedHeader and no Object is constructed.
C4_MalformedHeaderReported ==
    (pc = "decoded" /\ input.kind = "header" /\ input.readable /\ input.zlib_ok
       /\ MissingDelimiters(input.bytes)) =>
        /\ result.status = "MalformedHeader"
        /\ ~result.obj.made

\* C5: the commit decoder returns a Commit or reports MalformedCommit, never
\* slicing past the end; a body whose first line is no tree line is
\* MalformedCommit.
C5_CommitNeverOverruns ==
    (pc = "decoded" /\ input.kind = "commit") =>
        /\ result.status \in {"ok", "MalformedCommit"}
        /\ ~IsTreeLine(SplitLines(input.bytes)[1]) => result.status = "MalformedCommit"

----------------------------------------------------------------------------
(* Claims about the repository run, under Spec *)

EdgesFrom(list, name) ==
    LET From(e) == e.Src = name
    IN  SelectSeq(list, From)

NodesOf(list, name) == {i \in 1..Len(list) : list[i].name = name}

Unrecognized(obj) == obj.Type_ \notin {StrBlob, StrTree, StrCommit}

\* C6: the graph build emits exactly one node per object whatever its kind;
\* a blob or an object of unrecognized kind has a node and no edge, and an
\* unrecognized kind does not abort the build.
C6_NodePerObject ==
    /\ pc = "toJson" =>
         \A name \in (DOMAIN r.objects) \ todo :
            /\ Cardinality(NodesOf(nodes, name)) = 1
            /\ r.objects[name].Type_ \notin {StrTree, StrCommit}
                 => EdgesFrom(edges, name) = <<>>
    /\ ~(/\ exit.status # "running"
         /\ exit.op = "toJson"
         /\ Unrecognized(r.objects[exit.subject]))

\* the edges one object owes: a commit its parents in declaration order and
\* then its tree, a tree the targets of its entries in entry order
OwedEdges(obj) ==
    IF obj.Type_ = StrCommit
    THEN LET c == parseCommit(obj.Content).commit
         IN  [i \in 1..(Len(c.Parents) + 1) |->
                 [Src |-> obj.Name,
                  Dest |-> IF i <= Len(c.Parents) THEN c.Parents[i] ELSE c.Tree]]
    ELSE IF obj.Type_ = StrTree
    THEN LET t == parseTree(obj.Content).entries
         IN  [i \in 1..Len(t) |-> [Src |-> obj.Name, Dest |-> t[i].Hash]]
    ELSE <<>>

EdgeListInOrder(list) ==
    /\ \A name \in DOMAIN r.objects :
          EdgesFrom(list, name) =
             IF name \in todo THEN <<>> ELSE OwedEdges(r.objects[name])
    /\ \A i \in 1..Len(list) : list[i].Src \in DOMAIN r.objects

\* C7: in the edge list of the graph build, the edges whose source is one
\* object are, for a commit, its parents in declaration order and then its
\* tree, and for a tree, its entries' targets in entry order; there are no
\* other edges, and an edge is emitted whether or not its destination is loaded.
C7_EdgeOrder ==
    /\ pc = "toJson" => EdgeListInOrder(edges)
    /\ pc = "toSQLite" => EdgeListInOrder(db.edges)

MergeId == HexEncode(Raw(221))
TreeId == HexEncode(Raw(170))

\* the build has finished over the merge commit and the two-entry tree, and
\* their edges are the ones written in their bodies, two of them dangling
C7_Witness ==
    /\ pc = "toJson"
    /\ todo = {}
    /\ EdgesFrom(edges, MergeId) =
         <<Edge(MergeId, HexEncode(Raw(204))), Edge(MergeId, HexEncode(Raw(153))),
           Edge(MergeId, TreeId)>>
    /\ EdgesFrom(edges, TreeId) =
         <<Edge(TreeId, HexEncode(Raw(187))), Edge(TreeId, HexEncode(Raw(60)))>>
    /\ HexEncode(Raw(153)) \notin DOMAIN r.objects
    /\ HexEncode(Raw(60)) \notin DOMAIN r.objects

\* C8: a failure while loading or decoding one object never aborts the pass:
\* the pass completes and every candidate object gets its node.
C8_FailureNeverAborts ==
    /\ exit.status = "running"
    /\ (pc = "toJson" /\ todo = {}) => Len(nodes) = Cardinality(fed[walk.op])

\* C9: two passes (load, then graph build) over the unchanged store yield
\* the same set of nodes and the same set of edges, whatever the order in
\* which the object map is iterated.
C9_SamePassTwice ==
    (out.made /\ prevOut.made /\ out.root = prevOut.root) =>
        /\ out.nodes = prevOut.nodes
        /\ out.edges = prevOut.edges

\* two builds, the store loaded again between them, over several objects
C9_Witness ==
    /\ out.made
    /\ prevOut.made
    /\ out.root = prevOut.root
    /\ out.load > prevOut.load
    /\ Cardinality(out.nodes) >= 2
    /\ Cardinality(out.edges) >= 3

\* C10: refresh feeds the loader the same candidate paths as newRepo did,
\* none of them outside the objects directory, and leaves the same
\* identifiers in r.objects.
C10_RefreshLoadsSameObjects ==
    /\ \A path \in fed.refresh : InRoot(path, Location \o OBJS_DIR)
    /\ (pc = "idle" /\ walk.op = "refresh") =>
         /\ fed.refresh = fed.newRepo
         /\ DOMAIN r.objects = {getObjectName(path) : path \in fed.newRepo}

====
